---- MODULE Spec2Model ----
(***************************************************************************)
(* Query construction (server/queryBuilder.ts) and the transformation of   *)
(* the Serper response (server/routes.ts) of the Domain-Search service.    *)
(*                                                                         *)
(* A JavaScript string is a sequence of one-character strings; an optional *)
(* value (a property that may be undefined) is the empty tuple when it is  *)
(* undefined and a one-element tuple holding the value otherwise.          *)
(***************************************************************************)
EXTENDS Integers, Sequences, FiniteSets, TLC

\* ---------------------------------------------------------------- bounds
\* Total number of characters over the six optional fields of one request.
MaxTotal == 4

\* ------------------------------------------------------- optional values
None == << >>
Some(v) == << v >>
IsSome(o) == o # None
Get(o) == o[1]

\* -------------------------------------------------------------- strings
\* The characters String.prototype.trim and the regex class \s agree on.
Whitespace == {" ", "\t"}

IsSpace(c) == c \in Whitespace

RECURSIVE TrimStart(_)
TrimStart(s) ==
    IF s # << >> /\ IsSpace(Head(s)) THEN TrimStart(Tail(s)) ELSE s

RECURSIVE TrimEnd(_)
TrimEnd(s) ==
    IF s # << >> /\ IsSpace(s[Len(s)])
    THEN TrimEnd(SubSeq(s, 1, Len(s) - 1))
    ELSE s

\* String.prototype.trim
Trim(s) == TrimEnd(TrimStart(s))

\* Index of the first whitespace character of s at or after i, 0 if none.
RECURSIVE FirstSpace(_, _)
FirstSpace(s, i) ==
    IF i > Len(s) THEN 0
    ELSE IF IsSpace(s[i]) THEN i
    ELSE FirstSpace(s, i + 1)

\* The string split at every single whitespace character.
RECURSIVE SplitEachSpace(_)
SplitEachSpace(s) ==
    LET i == FirstSpace(s, 1) IN
    IF i = 0 THEN << s >>
    ELSE << SubSeq(s, 1, i - 1) >> \o SplitEachSpace(SubSeq(s, i + 1, Len(s)))

\* String.prototype.split(/\s+/): the pieces between the maximal runs of
\* whitespace; a run at either end leaves an empty piece there.
RECURSIVE SplitWs(_)
SplitWs(s) ==
    LET i == FirstSpace(s, 1) IN
    IF i = 0 THEN << s >>
    ELSE << SubSeq(s, 1, i - 1) >>
           \o SplitWs(TrimStart(SubSeq(s, i, Len(s))))

\* Array.prototype.join
RECURSIVE Join(_, _)
Join(parts, sep) ==
    IF parts = << >> THEN << >>
    ELSE IF Len(parts) = 1 THEN parts[1]
    ELSE parts[1] \o sep \o Join(Tail(parts), sep)

\* Array.prototype.map over a sequence with a one-character prefix.
Prefixed(p, terms) == [k \in 1..Len(terms) |-> p \o terms[k]]

\* ------------------------------------------------------- string literals
SiteLit == <<"s", "i", "t", "e", ":">>
DomainLit == <<"d", "o", "m", "a", "i", "n", ":", " ">>
AllOfLabelLit == <<"A", "L", "L", " ", "O", "F", ":", " ">>
AllOfDescLit ==
    <<"m", "u", "s", "t", " ", "i", "n", "c", "l", "u", "d", "e", " ",
      "a", "l", "l", ":", " ">>
AnyOfLabelLit == <<"A", "N", "Y", " ", "O", "F", ":", " ">>
AnyOfDescLit == <<"a", "n", "y", " ", "o", "f", ":", " ">>
OrLit == <<" ", "O", "R", " ">>
ExactLabelLit == <<"E", "X", "A", "C", "T", ":", " ", "\"">>
ExactDescLit ==
    <<"e", "x", "a", "c", "t", " ", "p", "h", "r", "a", "s", "e", ":", " ",
      "\"">>
Quote == <<"\"">>
IncludeLabelLit == <<"I", "N", "C", "L", "U", "D", "E", ":", " ">>
IncludeDescLit == <<"i", "n", "c", "l", "u", "d", "e", ":", " ">>
ExcludeLabelLit == <<"E", "X", "C", "L", "U", "D", "E", ":", " ">>
ExcludeDescLit == <<"e", "x", "c", "l", "u", "d", "e", ":", " ">>
FileTypeLit == <<"f", "i", "l", "e", "t", "y", "p", "e", ":">>
FileTypeLabelLit == <<"F", "I", "L", "E", "T", "Y", "P", "E", ":", " ">>
FileTypeDescLit == <<"f", "i", "l", "e", " ", "t", "y", "p", "e", ":", " ">>

\* ------------------------------------------------- buildAdvancedQuery
\* A field tested without trimming it first.
TruthyUntrimmed(o) == IsSome(o) /\ Get(o) # << >>

\* `field?.trim()` used as a condition: the field is defined and its
\* trimmed value is not the empty string.
TrimTruthy(o) == IsSome(o) /\ Trim(Get(o)) # << >>

NoArrays == [queryParts |-> << >>, operators |-> << >>, descriptions |-> << >>]

\* The arrays of the call before, used again.
KeptArrays(old) == old

\* `o.trim()` throws a TypeError when o is undefined.
TrimThrows(o) == o = None

\* The test of a block written without the `?.`.
UnguardedTrimThrows(o) == o = None

\* `o?.trim()` does not: the call is skipped when o is undefined.
OptionalTrimThrows(o) == FALSE

\* Whether a call on sp ends in a TypeError: in the test of a block, or in
\* the trim inside a block whose test let it in.
buildAdvancedQueryThrows(sp) ==
    \E f \in { "allOfTerms", "anyOfTerms", "exactPhrase", "includeTerms",
               "excludeTerms", "fileType" } :
      \/ OptionalTrimThrows(sp[f])
      \/ TrimTruthy(sp[f]) /\ TrimThrows(sp[f])

\* The three arrays the function fills, as they are when it starts: new
\* and empty, whatever the call before left in its own.
NewArrays(old) == NoArrays

Push(acc, parts, label, desc) ==
    [queryParts |-> acc.queryParts \o parts,
     operators |-> Append(acc.operators, label),
     descriptions |-> Append(acc.descriptions, desc)]

SiteBlock(acc, sp) ==
    Push(acc, << SiteLit \o sp.domain >>, SiteLit \o sp.domain,
         DomainLit \o sp.domain)

\* allOfTerms pushing one operator label for each term.
AllOfBlockLabelPerTerm(acc, sp) ==
    IF TrimTruthy(sp.allOfTerms)
    THEN LET terms == SplitWs(Trim(Get(sp.allOfTerms))) IN
         [queryParts |-> acc.queryParts \o Prefixed(<<"+">>, terms),
          operators |-> acc.operators \o Prefixed(AllOfLabelLit, terms),
          descriptions |-> Append(acc.descriptions,
                                  AllOfDescLit \o Get(sp.allOfTerms))]
    ELSE acc

\* allOfTerms split without being trimmed first.
AllOfBlockUntrimmed(acc, sp) ==
    IF TrimTruthy(sp.allOfTerms)
    THEN LET terms == SplitWs(Get(sp.allOfTerms)) IN
         Push(acc, Prefixed(<<"+">>, terms),
              AllOfLabelLit \o Get(sp.allOfTerms),
              AllOfDescLit \o Get(sp.allOfTerms))
    ELSE acc

AllOfBlock(acc, sp) ==
    IF TrimTruthy(sp.allOfTerms)
    THEN LET terms == SplitWs(Trim(Get(sp.allOfTerms))) IN
         Push(acc, Prefixed(<<"+">>, terms),
              AllOfLabelLit \o Get(sp.allOfTerms),
              AllOfDescLit \o Get(sp.allOfTerms))
    ELSE acc

\* anyOfTerms joined without the parentheses.
AnyOfBlockNoParens(acc, sp) ==
    IF TrimTruthy(sp.anyOfTerms)
    THEN LET terms == SplitWs(Trim(Get(sp.anyOfTerms))) IN
         Push(acc, << Join(terms, OrLit) >>,
              AnyOfLabelLit \o Get(sp.anyOfTerms),
              AnyOfDescLit \o Get(sp.anyOfTerms))
    ELSE acc

AnyOfBlock(acc, sp) ==
    IF TrimTruthy(sp.anyOfTerms)
    THEN LET terms == SplitWs(Trim(Get(sp.anyOfTerms)))
             orQuery == <<"(">> \o Join(terms, OrLit) \o <<")">> IN
         Push(acc, << orQuery >>,
              AnyOfLabelLit \o Get(sp.anyOfTerms),
              AnyOfDescLit \o Get(sp.anyOfTerms))
    ELSE acc

\* exactPhrase with its whitespace runs collapsed to single spaces.
ExactBlockCollapsed(acc, sp) ==
    IF TrimTruthy(sp.exactPhrase)
    THEN Push(acc,
              << Quote \o Join(SplitWs(Trim(Get(sp.exactPhrase))), <<" ">>)
                   \o Quote >>,
              ExactLabelLit \o Get(sp.exactPhrase) \o Quote,
              ExactDescLit \o Get(sp.exactPhrase) \o Quote)
    ELSE acc

ExactBlock(acc, sp) ==
    IF TrimTruthy(sp.exactPhrase)
    THEN Push(acc, << Quote \o Trim(Get(sp.exactPhrase)) \o Quote >>,
              ExactLabelLit \o Get(sp.exactPhrase) \o Quote,
              ExactDescLit \o Get(sp.exactPhrase) \o Quote)
    ELSE acc

\* includeTerms pushed as typed, in one part.
IncludeBlockRaw(acc, sp) ==
    IF TrimTruthy(sp.includeTerms)
    THEN Push(acc, << Get(sp.includeTerms) >>,
              IncludeLabelLit \o Get(sp.includeTerms),
              IncludeDescLit \o Get(sp.includeTerms))
    ELSE acc

IncludeBlock(acc, sp) ==
    IF TrimTruthy(sp.includeTerms)
    THEN LET terms == SplitWs(Trim(Get(sp.includeTerms))) IN
         Push(acc, terms,
              IncludeLabelLit \o Get(sp.includeTerms),
              IncludeDescLit \o Get(sp.includeTerms))
    ELSE acc

\* excludeTerms with one minus sign before the whole list.
ExcludeBlockOneMinus(acc, sp) ==
    IF TrimTruthy(sp.excludeTerms)
    THEN LET terms == SplitWs(Trim(Get(sp.excludeTerms))) IN
         Push(acc, << <<"-">> \o Join(terms, <<" ">>) >>,
              ExcludeLabelLit \o Get(sp.excludeTerms),
              ExcludeDescLit \o Get(sp.excludeTerms))
    ELSE acc

ExcludeBlock(acc, sp) ==
    IF TrimTruthy(sp.excludeTerms)
    THEN LET terms == SplitWs(Trim(Get(sp.excludeTerms))) IN
         Push(acc, Prefixed(<<"-">>, terms),
              ExcludeLabelLit \o Get(sp.excludeTerms),
              ExcludeDescLit \o Get(sp.excludeTerms))
    ELSE acc

\* fileType split into terms, one filetype: part for each.
FileTypeBlockSplit(acc, sp) ==
    IF TrimTruthy(sp.fileType)
    THEN Push(acc, Prefixed(FileTypeLit, SplitWs(Trim(Get(sp.fileType)))),
              FileTypeLabelLit \o Get(sp.fileType),
              FileTypeDescLit \o Get(sp.fileType))
    ELSE acc

FileTypeBlock(acc, sp) ==
    IF TrimTruthy(sp.fileType)
    THEN Push(acc, << FileTypeLit \o Trim(Get(sp.fileType)) >>,
              FileTypeLabelLit \o Get(sp.fileType),
              FileTypeDescLit \o Get(sp.fileType))
    ELSE acc

\* The file type block placed before the exclude block.
FilledArraysReordered(old, sp) ==
    ExcludeBlock(
      FileTypeBlock(
        IncludeBlock(
          ExactBlock(
            AnyOfBlock(
              AllOfBlock(
                SiteBlock(NewArrays(old), sp), sp), sp), sp), sp), sp), sp)

\* The arrays at the end of the function body, before the joins.
FilledArrays(old, sp) ==
    FileTypeBlock(
      ExcludeBlock(
        IncludeBlock(
          ExactBlock(
            AnyOfBlock(
              AllOfBlock(
                SiteBlock(NewArrays(old), sp), sp), sp), sp), sp), sp), sp)

\* The query built by appending a space after every part.
ComponentsTrailingSpace(acc) ==
    [query |-> Join([k \in 1..Len(acc.queryParts) |->
                       acc.queryParts[k] \o <<" ">>], << >>),
     operators |-> acc.operators,
     description |-> Join(acc.descriptions, <<",", " ">>)]

Components(acc) ==
    [query |-> Join(acc.queryParts, <<" ">>),
     operators |-> acc.operators,
     description |-> Join(acc.descriptions, <<",", " ">>)]

buildAdvancedQuery(sp) ==
    Components(FilledArrays(NoArrays, sp))

\* ------------------------------------------------------------- requests
\* The optional string fields of advancedSearchQuerySchema that
\* buildAdvancedQuery reads, in the order the function reads them.
Fields ==
    <<"allOfTerms", "anyOfTerms", "exactPhrase", "includeTerms",
      "excludeTerms", "fileType">>

\* Domains accepted by the domain pattern of the schema.
Domains == { <<"a", ".", "i", "o">>, <<"b", "-", "c", ".", "d", "e">> }

\* Characters a field's value is drawn from.
FieldChars(f) ==
    IF f = "exactPhrase" THEN {" ", "a", "\""} ELSE {" ", "a"}

\* The values of field f of length n; length -1 stands for undefined.
OptValues(f, n) ==
    IF n = -1 THEN {None} ELSE { Some(s) : s \in [1..n -> FieldChars(f)] }

RECURSIVE SumTo(_, _)
SumTo(l, k) == IF k = 0 THEN 0 ELSE SumTo(l, k - 1) + (IF l[k] > 0 THEN l[k] ELSE 0)

\* The lengths of the six fields, adding up to at most total characters.
FieldLengths(total) ==
    { l \in [1..Len(Fields) -> -1..total] : SumTo(l, Len(Fields)) <= total }

MkQuery(d, a1, a2, a3, a4, a5, a6) ==
    [domain |-> d, allOfTerms |-> a1, anyOfTerms |-> a2,
     exactPhrase |-> a3, includeTerms |-> a4, excludeTerms |-> a5,
     fileType |-> a6]

\* sp is a request whose fields have the lengths l.
IsQueryOfLengths(sp, l) ==
    \E d \in Domains :
      \E a1 \in OptValues(Fields[1], l[1]), a2 \in OptValues(Fields[2], l[2]),
         a3 \in OptValues(Fields[3], l[3]), a4 \in OptValues(Fields[4], l[4]),
         a5 \in OptValues(Fields[5], l[5]), a6 \in OptValues(Fields[6], l[6]) :
        sp = MkQuery(d, a1, a2, a3, a4, a5, a6)

\* ------------------------------------------------ getDateFilterParams
AnyLit == <<"a", "n", "y">>
DayLit == <<"d", "a", "y">>
WeekLit == <<"w", "e", "e", "k">>
MonthLit == <<"m", "o", "n", "t", "h">>
YearLit == <<"y", "e", "a", "r">>
TbsLit == <<"t", "b", "s">>
QdrLit == <<"q", "d", "r", ":">>

\* The clock counts seconds (the code's milliseconds, a thousand at a time).
DaySeconds == 24 * 60 * 60

\* An object literal is the set of its key/value pairs.
NoParams == { }

\* The function with its switch falling through to the return for an
\* unrecognised value.
getDateFilterParamsNoDefault(dr, clock) ==
    IF dr = None \/ Get(dr) = << >> \/ Get(dr) = AnyLit THEN NoParams
    ELSE { [key |-> TbsLit, value |-> QdrLit \o << Get(dr)[1] >>] }

\* The function with the whole value put after qdr:.
getDateFilterParamsWholeValue(dr, clock) ==
    IF dr = None \/ Get(dr) = << >> \/ Get(dr) = AnyLit THEN NoParams
    ELSE IF Get(dr) \in {DayLit, WeekLit, MonthLit, YearLit}
         THEN { [key |-> TbsLit, value |-> QdrLit \o Get(dr)] }
         ELSE NoParams

\* dr is the optional dateRange argument, clock what `new Date()` reads.
getDateFilterParams(dr, clock) ==
    IF dr = None \/ Get(dr) = << >> \/ Get(dr) = AnyLit THEN NoParams
    ELSE LET v == Get(dr)
             startDate ==
               CASE v = DayLit -> Some(clock - DaySeconds)
                 [] v = WeekLit -> Some(clock - 7 * DaySeconds)
                 [] v = MonthLit -> Some(clock - 30 * DaySeconds)
                 [] v = YearLit -> Some(clock - 365 * DaySeconds)
                 [] OTHER -> None
         IN IF startDate = None THEN NoParams
            ELSE { [key |-> TbsLit, value |-> QdrLit \o << v[1] >>] }

\* ------------------------------------------------------ buildBasicQuery
SearchingLit == <<"S", "e", "a", "r", "c", "h", "i", "n", "g", " ">>
ForLit == <<" ", "f", "o", "r", " ", "\"">>

\* The keyword is trimmed before it is put in the query.
buildBasicQueryTrimmed(sp) ==
    [query |-> SiteLit \o sp.domain \o <<" ">> \o Trim(sp.keyword),
     operators |-> << SiteLit \o sp.domain >>,
     description |->
       SearchingLit \o sp.domain \o ForLit \o sp.keyword \o Quote]

buildBasicQuery(sp) ==
    [query |-> SiteLit \o sp.domain \o <<" ">> \o sp.keyword,
     operators |-> << SiteLit \o sp.domain >>,
     description |->
       SearchingLit \o sp.domain \o ForLit \o sp.keyword \o Quote]

\* ---------------------------------------------- getLocalizationParams
UsLit == <<"u", "s">>
EnLit == <<"e", "n">>

\* The language is read where the region should be, and the other way round.
getLocalizationParamsSwapped(lang, reg) ==
    [gl |-> IF IsSome(lang) /\ Get(lang) # << >> THEN Get(lang) ELSE UsLit,
     hl |-> IF IsSome(reg) /\ Get(reg) # << >> THEN Get(reg) ELSE EnLit]

\* `region || 'us'`, `language || 'en'`: undefined and "" are falsy.
getLocalizationParams(lang, reg) ==
    [gl |-> IF IsSome(reg) /\ Get(reg) # << >> THEN Get(reg) ELSE UsLit,
     hl |-> IF IsSome(lang) /\ Get(lang) # << >> THEN Get(lang) ELSE EnLit]

\* --------------------------------------- the Serper response, routes.ts
NoTitleLit == <<"N", "o", " ", "t", "i", "t", "l", "e">>
NoSnippetLit ==
    <<"N", "o", " ", "s", "n", "i", "p", "p", "e", "t", " ",
      "a", "v", "a", "i", "l", "a", "b", "l", "e">>

\* `x ?? dflt`: only undefined and null give the default.
OrElseNullish(o, dflt) == IF IsSome(o) THEN Get(o) ELSE dflt

\* `x || dflt` for an optional string x: undefined, null and "" are falsy.
OrElse(o, dflt) == IF IsSome(o) /\ Get(o) # << >> THEN Get(o) ELSE dflt

\* The arrow function given to map; reading a property of null throws.
TransformResult(r) ==
    [title |-> OrElse(r.title, NoTitleLit),
     url |-> OrElse(r.link, << >>),
     snippet |-> OrElse(r.snippet, NoSnippetLit)]

\* `data.organic?.map(...) || []` inside the try block, and the catch that
\* turns anything thrown into the error the route answers with status 500.
TransformResults(org) ==
    IF org = None THEN [status |-> "ok", results |-> << >>]
    ELSE IF \E i \in 1..Len(Get(org)) : Get(org)[i].kind = "null"
         THEN [status |-> "error", results |-> << >>]
         ELSE [status |-> "ok",
               results |-> [i \in 1..Len(Get(org)) |->
                              TransformResult(Get(org)[i])]]

\* The elements a provider list may hold: null, a value that is no object
\* (a number), and objects whose title, link and snippet may each be missing.
RawRecords ==
    { [kind |-> "null", title |-> None, link |-> None, snippet |-> None],
      [kind |-> "number", title |-> None, link |-> None, snippet |-> None] }
    \cup
    [kind : {"object"},
     title : {None, Some(<< >>), Some(<<"A">>), Some(<<"B">>)},
     link : {None, Some(<< >>), Some(<<"L">>)},
     snippet : {None, Some(<< >>), Some(<<"S">>)}]

\* ------------------------------------- request validation, schema.ts
\* The characters of [a-zA-Z] and of [0-9] that the requests here are
\* written with.
Letters == {"a", "b", "c", "d", "e", "i", "o", "k", "u"}
Digits == {"1"}

IsLetter(c) == c \in Letters
IsAlnum(c) == c \in Letters \cup Digits
IsHostChar(c) == IsAlnum(c) \/ c = "-"

\* [a-zA-Z]{2,}
IsLetters2(t) == Len(t) >= 2 /\ \A i \in 1..Len(t) : IsLetter(t[i])

\* ([a-zA-Z]{2,}|[a-zA-Z]{2,}\.[a-zA-Z]{2,})$
MatchesTld(t) ==
    \/ IsLetters2(t)
    \/ \E e \in 1..Len(t) :
         /\ t[e] = "."
         /\ IsLetters2(SubSeq(t, 1, e - 1))
         /\ IsLetters2(SubSeq(t, e + 1, Len(t)))

\* ^[a-zA-Z0-9][a-zA-Z0-9-]*[a-zA-Z0-9]*\. and then the suffix
MatchesDomainPattern(s) ==
    \E d \in 2..Len(s) :
      /\ s[d] = "."
      /\ IsAlnum(s[1])
      /\ \A i \in 2..(d - 1) : IsHostChar(s[i])
      /\ MatchesTld(SubSeq(s, d + 1, Len(s)))

\* The domain check without its refine step.
IsNonEmptyDomain(s) == Len(s) >= 1

\* z.string().min(1).refine(pattern)
IsValidDomain(s) == Len(s) >= 1 /\ MatchesDomainPattern(s)

MaxKeywordLength == 200

\* z.string().min(1).max(200)
IsValidKeyword(k) == Len(k) >= 1 /\ Len(k) <= MaxKeywordLength

\* searchQuerySchema.parse does not throw a ZodError on body.
searchQuerySchemaAccepts(body) ==
    IsValidDomain(body.domain) /\ IsValidKeyword(body.keyword)

\* advancedSearchQuerySchema.parse does not throw a ZodError on body; its
\* optional fields are strings or undefined here.
advancedSearchQuerySchemaAccepts(body) == IsValidDomain(body.domain)

\* ------------------------------- the scripted-browser search, performSearch
MaxCalls == 2

Calls == 1..MaxCalls

\* The two versions of the function: the first one, and the one with extra
\* headers and a check for results.
Versions == {"first", "second"}

\* The awaits inside the try block, in order; step is the one a call is
\* at, 0 outside the try block.
StepsOf(version) ==
    IF version = "first"
    THEN <<"newPage", "setUserAgent", "goto", "waitForSelector", "evaluate">>
    ELSE <<"newPage", "setUserAgent", "setExtraHTTPHeaders", "goto",
           "waitForTimeout", "hasResults", "evaluate">>

\* A call before it is made.
NotCalled ==
    [pc |-> "idle", version |-> "first", step |-> 0, launched |-> 0,
     closed |-> 0, failedAt |-> "", outcome |-> ""]

\* Without the finally block an error leaves the function at once.
AfterThrowNoFinally == "threw"

\* Where an error thrown inside the try block leads: through the catch, to
\* the finally block.
AfterThrow == "finally"

\* ---------------------------------------------------------------- state
VARIABLES
    searchParams,     \* the parsed body of the advanced search request
    keyOrder,         \* the order in which its defined properties were set
    arrays,           \* queryParts, operators, descriptions of the last call
    queryComponents,  \* what buildAdvancedQuery returned, None before it
    buildOutcome,     \* "none" before the call, then "returned" or "threw"
    firstCall,        \* history: the first call of buildAdvancedQuery
    now,              \* the clock
    dateRange,        \* the argument of getDateFilterParams
    dateParams,       \* what getDateFilterParams returned, None before it
    organic,          \* data.organic of the Serper response
    searchOutcome,    \* what the search function did with it, None before
    apiKey,           \* process.env.SERPER_API_KEY
    request,          \* the search request being handled, None before it
    pc,               \* where its handler is
    compiled,         \* the query the handler compiled, None before
    results,          \* what the search function returned to the handler
    searchHist,       \* the row createSearchHistory returned, None before
    resultIndex,      \* how many results the loop has stored
    effects,          \* what the handler did, in order
    response,         \* the response sent, None before
    upstream,         \* how the fetch of the request ended, None before
    storageBefore,    \* history: the tables when the request arrived
    searchHistory,    \* the search_history table
    searchResults,    \* the search_results table
    language,         \* the first argument of getLocalizationParams
    region,           \* its second argument
    localizationParams,  \* what it returned, None before the call
    basicParams,      \* the argument of buildBasicQuery
    basicComponents,  \* what it returned, None before the call
    savedSearches,    \* the saved_searches table, in order of creation
    nextSavedId,      \* the next value of its serial id
    savedRequest,     \* the last saved-searches request, None before any
    savedResponse,    \* the response to it
    browsers          \* the calls of the scripted-browser performSearch

vars ==
    << searchParams, keyOrder, arrays, queryComponents, buildOutcome,
       firstCall, now, dateRange, dateParams, organic, searchOutcome,
       apiKey, request, pc, compiled, results, searchHist, resultIndex,
       effects, response, upstream, storageBefore, searchHistory,
       searchResults, language, region, localizationParams, basicParams,
       basicComponents, savedSearches, nextSavedId, savedRequest,
       savedResponse, browsers >>

queryVars ==
    << searchParams, keyOrder, arrays, queryComponents, buildOutcome,
       firstCall >>
dateVars == << dateRange, dateParams >>
resultVars == << organic, searchOutcome >>
handlerVars ==
    << request, pc, compiled, results, searchHist, resultIndex, effects,
       response, upstream, storageBefore >>
storageVars == << searchHistory, searchResults >>
routeVars == << apiKey, handlerVars, storageVars >>

\* The defined optional fields of sp, in the order of Fields.
DefinedFields(sp) == SelectSeq(Fields, LAMBDA f : IsSome(sp[f]))

QueryIdle ==
    /\ searchParams = MkQuery(CHOOSE d \in Domains : TRUE,
                              None, None, None, None, None, None)
    /\ keyOrder = << >>
    /\ arrays = NoArrays
    /\ queryComponents = None
    /\ buildOutcome = "none"
    /\ firstCall = None

DateIdle == dateRange = None /\ dateParams = None

ResultsIdle == organic = None /\ searchOutcome = None

\* No request has arrived.
HandlerIdle ==
    /\ request = None
    /\ pc = "idle"
    /\ compiled = None
    /\ results = << >>
    /\ searchHist = None
    /\ resultIndex = 0
    /\ effects = << >>
    /\ response = None
    /\ upstream = None
    /\ storageBefore = [history |-> searchHistory, results |-> searchResults]

\* The tables are empty.
StorageEmpty == searchHistory = << >> /\ searchResults = << >>

RouteIdle == apiKey = None /\ StorageEmpty /\ HandlerIdle

localeVars == << language, region, localizationParams >>

LocaleIdle == language = None /\ region = None /\ localizationParams = None

basicVars == << basicParams, basicComponents >>

BasicIdle == basicParams = None /\ basicComponents = None

savedVars == << savedSearches, nextSavedId, savedRequest, savedResponse >>

SavedIdle ==
    /\ savedSearches = << >>
    /\ nextSavedId = 1
    /\ savedRequest = None
    /\ savedResponse = None

browserVars == << browsers >>

BrowserIdle == browsers = [c \in Calls |-> NotCalled]

\* The state outside the search handlers and the functions they call.
auxVars == << localeVars, basicVars, savedVars, browserVars >>

AuxIdle == LocaleIdle /\ BasicIdle /\ SavedIdle /\ BrowserIdle

\* ------------------------------------------- buildAdvancedQuery, alone
InitQuery ==
    /\ \E l \in FieldLengths(MaxTotal) : IsQueryOfLengths(searchParams, l)
    /\ keyOrder = DefinedFields(searchParams)
    /\ arrays = NoArrays
    /\ queryComponents = None
    /\ buildOutcome = "none"
    /\ firstCall = None
    /\ now = 0
    /\ DateIdle
    /\ ResultsIdle
    /\ RouteIdle
    /\ AuxIdle

\* One call of buildAdvancedQuery on the request's parameters.
BuildAdvancedQuery ==
    /\ buildOutcome = "none"
    /\ IF buildAdvancedQueryThrows(searchParams)
       THEN /\ buildOutcome' = "threw"
            /\ UNCHANGED << arrays, queryComponents >>
       ELSE /\ buildOutcome' = "returned"
            /\ arrays' = FilledArrays(arrays, searchParams)
            /\ queryComponents' = Some(Components(arrays'))
    /\ UNCHANGED << searchParams, keyOrder, firstCall, now, dateVars,
                    resultVars, routeVars, auxVars >>

NextQuery == BuildAdvancedQuery

SpecQuery == InitQuery /\ [][NextQuery]_vars

\* ------------------------------ buildAdvancedQuery, call after call
\* The requests of this specification are for one domain and define only
\* the first DetFields fields, each blank or holding one term.
DetFields == 2

MaxClock == 1

DetValues == { None, Some(<<" ">>), Some(<<"a">>) }

DetQueries ==
    { sp \in [domain : { <<"a", ".", "i", "o">> },
              allOfTerms : DetValues, anyOfTerms : DetValues,
              exactPhrase : DetValues, includeTerms : DetValues,
              excludeTerms : DetValues, fileType : DetValues] :
        \A k \in (DetFields + 1)..Len(Fields) : sp[Fields[k]] = None }

\* The orders in which the defined properties of sp can have been set.
KeyOrders(sp) ==
    LET d == DefinedFields(sp) IN
    { [i \in 1..Len(d) |-> d[p[i]]] :
        p \in { q \in [1..Len(d) -> 1..Len(d)] :
                  \A i, j \in 1..Len(d) : q[i] = q[j] => i = j } }

InitDet ==
    /\ QueryIdle
    /\ now = 0
    /\ DateIdle
    /\ ResultsIdle
    /\ RouteIdle
    /\ AuxIdle

\* A request arrives and buildAdvancedQuery is called on its parameters.
AdvancedSearchRequest ==
    \E sp \in DetQueries :
      \E order \in KeyOrders(sp) :
        /\ searchParams' = sp
        /\ keyOrder' = order
        /\ ~buildAdvancedQueryThrows(sp)
        /\ buildOutcome' = "returned"
        /\ arrays' = FilledArrays(arrays, sp)
        /\ queryComponents' = Some(Components(arrays'))
        /\ firstCall' =
             IF firstCall = None
             THEN Some([params |-> sp, keyOrder |-> order, at |-> now,
                        components |-> Get(queryComponents')])
             ELSE firstCall
        /\ UNCHANGED << now, dateVars, resultVars, routeVars, auxVars >>

\* Time passes.
Tick ==
    /\ now < MaxClock
    /\ now' = now + 1
    /\ UNCHANGED << queryVars, dateVars, resultVars, routeVars, auxVars >>

NextDet == AdvancedSearchRequest \/ Tick

SpecDet == InitDet /\ [][NextDet]_vars

\* ------------------------------------------------ getDateFilterParams
\* Values of dateRange other than the five of the schema's enum are the
\* strings over DateChars of at most MaxDateLen characters.
MaxDateLen == 3

DateChars == {"d", "a", "y"}

DateRanges ==
    {None} \cup
    { Some(s) : s \in {AnyLit, DayLit, WeekLit, MonthLit, YearLit} \cup
                      UNION { [1..k -> DateChars] : k \in 0..MaxDateLen } }

InitDate ==
    /\ QueryIdle
    /\ now = 0
    /\ dateRange \in DateRanges
    /\ dateParams = None
    /\ ResultsIdle
    /\ RouteIdle
    /\ AuxIdle

GetDateFilterParams ==
    /\ dateParams = None
    /\ dateParams' = Some(getDateFilterParams(dateRange, now))
    /\ UNCHANGED << queryVars, now, dateRange, resultVars, routeVars, auxVars >>

NextDate == GetDateFilterParams \/ Tick

SpecDate == InitDate /\ [][NextDate]_vars

\* ------------------------------- performSearch, performAdvancedSearch
\* Longest provider list.
MaxRecords == 2

Organics ==
    {None} \cup
    { Some(l) : l \in UNION { [1..n -> RawRecords] : n \in 0..MaxRecords } }

InitResults ==
    /\ QueryIdle
    /\ now = 0
    /\ DateIdle
    /\ organic \in Organics
    /\ searchOutcome = None
    /\ RouteIdle
    /\ AuxIdle

\* The basic search receives the response.
PerformSearch ==
    /\ searchOutcome = None
    /\ searchOutcome' = Some(TransformResults(organic))
    /\ UNCHANGED << queryVars, now, dateVars, organic, routeVars,
                    auxVars >>

\* The advanced search receives the response.
PerformAdvancedSearch ==
    /\ searchOutcome = None
    /\ searchOutcome' = Some(TransformResults(organic))
    /\ UNCHANGED << queryVars, now, dateVars, organic, routeVars,
                    auxVars >>

NextResults == PerformSearch \/ PerformAdvancedSearch

SpecResults == InitResults /\ [][NextResults]_vars

\* ------------------------ POST /api/search, POST /api/search/advanced
MaxDomainLen == 4

DomainChars == {"a", "1", "-", ".", "/"}

\* The domains of the request bodies: the accepted ones above, one with a
\* two-part suffix, and every short string of DomainChars.
RouteDomains ==
    Domains \cup { <<"a", ".", "c", "o", ".", "u", "k">> }
      \cup UNION { [1..n -> DomainChars] : n \in 0..MaxDomainLen }

Keywords == { << >>, <<"k">> }

\* req.user.claims.sub of an authenticated caller, None for an anonymous one.
Users == { None, Some("u") }

BasicBodies == [domain : RouteDomains, keyword : Keywords]

AdvancedBodies ==
    { MkQuery(d, a, None, None, None, None, None) :
        d \in RouteDomains, a \in { None, Some(<<"a">>) } }

\* What the provider's list holds here: a record with a link, one without,
\* and null.
RouteRecords ==
    { [kind |-> "object", title |-> Some(<<"A">>), link |-> Some(<<"L">>),
       snippet |-> None],
      [kind |-> "object", title |-> Some(<<"B">>), link |-> None,
       snippet |-> Some(<<"S">>)],
      [kind |-> "null", title |-> None, link |-> None, snippet |-> None] }

RouteOrganics ==
    {None} \cup
    { Some(l) : l \in UNION { [1..n -> RouteRecords] : n \in 0..MaxRecords } }

\* How the fetch ends: it rejects, it answers with a status that is not OK,
\* or it answers OK with a body.
FetchOutcomes ==
    { [kind |-> "rejected", organic |-> None],
      [kind |-> "notOk", organic |-> None] }
      \cup { [kind |-> "ok", organic |-> o] : o \in RouteOrganics }

ValidationErrorMsg == "Validation error"
InvalidAdvancedMsg == "Invalid advanced search parameters"
SearchFailedMsg == "Search failed. Please try again later."
AdvancedSearchFailedMsg == "Advanced search failed. Please try again later."

Reply(status, message, res, info) ==
    [status |-> status, message |-> message, results |-> res,
     queryInfo |-> info]

\* res.status(...).json(...): the handler is over.
Sends(r) == response' = Some(r) /\ pc' = "done"

\* The catch block of the handler, for an error that is a ZodError or not.
Catches(route, isZod) ==
    IF route = "basic"
    THEN Sends(Reply(IF isZod THEN 400 ELSE 500,
                     IF isZod THEN ValidationErrorMsg ELSE SearchFailedMsg,
                     << >>, None))
    ELSE Sends(Reply(IF isZod THEN 400 ELSE 500,
                     IF isZod THEN InvalidAdvancedMsg
                     ELSE AdvancedSearchFailedMsg,
                     << >>, None))

\* res.json(results), or res.json({results, queryInfo}).
SendsResults(res) ==
    IF Get(request).route = "basic"
    THEN Sends(Reply(200, "", res, None))
    ELSE Sends(Reply(200, "", res, compiled))

\* The handler without its if: history is saved for every caller.
ShouldSaveHistoryAlways(req) == TRUE

\* The if of the handlers: req.isAuthenticated() && req.user?.claims?.sub.
ShouldSaveHistory(req) == IsSome(req.user)

\* A search function that answers with no results when the fetch failed.
SearchAfterFetchLenient(f) ==
    IF f.kind = "ok" THEN TransformResults(f.organic)
    ELSE [status |-> "ok", results |-> << >>]

\* The search function once the fetch has settled: a rejected fetch and a
\* status that is not OK are thrown again, an OK body is mapped.
SearchAfterFetch(f) ==
    IF f.kind = "ok" THEN TransformResults(f.organic)
    ELSE [status |-> "error", results |-> << >>]

\* What the tables hold when a request arrives: nothing, or the rows of one
\* earlier search with one result.
InitialStorages ==
    { [history |-> << >>, results |-> << >>],
      [history |-> << [id |-> 1, userId |-> "u",
                       domain |-> <<"a", ".", "i", "o">>,
                       keyword |-> <<"k">>, resultsCount |-> 1] >>,
       results |-> << [id |-> 1, searchHistoryId |-> 1,
                       title |-> <<"A">>, url |-> <<"L">>,
                       snippet |-> NoSnippetLit] >>] }

InitRoute ==
    /\ QueryIdle
    /\ now = 0
    /\ DateIdle
    /\ ResultsIdle
    /\ apiKey \in { None, Some("key") }
    /\ \E st \in InitialStorages :
         searchHistory = st.history /\ searchResults = st.results
    /\ HandlerIdle
    /\ AuxIdle

\* The basic handler up to its first await: parse, then performSearch up to
\* the fetch.
PostSearch ==
    /\ pc = "idle"
    /\ \E body \in BasicBodies, u \in Users :
         /\ request' = Some([route |-> "basic", body |-> body, user |-> u])
         /\ IF ~searchQuerySchemaAccepts(body)
            THEN /\ Catches("basic", TRUE)
                 /\ UNCHANGED << compiled, effects >>
            ELSE IF apiKey = None
            THEN /\ Catches("basic", FALSE)
                 /\ UNCHANGED << compiled, effects >>
            ELSE /\ compiled' =
                      Some([query |-> SiteLit \o body.domain \o <<" ">>
                                        \o body.keyword])
                 /\ effects' = <<"compile", "fetch">>
                 /\ pc' = "fetch"
                 /\ UNCHANGED response
    /\ UNCHANGED << queryVars, now, dateVars, resultVars, apiKey, results,
                    searchHist, resultIndex, upstream, storageBefore,
                    storageVars, auxVars >>

\* The advanced handler up to its first await: parse, buildAdvancedQuery,
\* then performAdvancedSearch up to the fetch.
PostAdvancedSearch ==
    /\ pc = "idle"
    /\ \E body \in AdvancedBodies, u \in Users :
         /\ request' = Some([route |-> "advanced", body |-> body, user |-> u])
         /\ IF ~advancedSearchQuerySchemaAccepts(body)
            THEN /\ Catches("advanced", TRUE)
                 /\ UNCHANGED << compiled, effects >>
            ELSE IF buildAdvancedQueryThrows(body)
            THEN /\ Catches("advanced", FALSE)
                 /\ UNCHANGED << compiled, effects >>
            ELSE IF apiKey = None
            THEN /\ Catches("advanced", FALSE)
                 /\ compiled' = Some(buildAdvancedQuery(body))
                 /\ effects' = <<"compile">>
            ELSE /\ compiled' = Some(buildAdvancedQuery(body))
                 /\ effects' = <<"compile", "fetch">>
                 /\ pc' = "fetch"
                 /\ UNCHANGED response
    /\ UNCHANGED << queryVars, now, dateVars, resultVars, apiKey, results,
                    searchHist, resultIndex, upstream, storageBefore,
                    storageVars, auxVars >>

\* The fetch settles; the search function maps the list or throws, and the
\* handler goes on to createSearchHistory for an authenticated caller.
FetchReturns ==
    /\ pc = "fetch"
    /\ \E f \in FetchOutcomes :
         LET out == SearchAfterFetch(f)
         IN  /\ upstream' = Some(f)
             /\ IF out.status = "error"
                THEN /\ Catches(Get(request).route, FALSE)
                     /\ UNCHANGED results
                ELSE /\ results' = out.results
                     /\ IF ShouldSaveHistory(Get(request))
                        THEN /\ pc' = "createSearchHistory"
                             /\ UNCHANGED response
                        ELSE SendsResults(out.results)
    /\ UNCHANGED << queryVars, now, dateVars, resultVars, apiKey, request,
                    compiled, searchHist, resultIndex, effects,
                    storageBefore, storageVars, auxVars >>

\* The history entry of an advanced search keeps the query.
HistoryKeywordQuery ==
    IF Get(request).route = "basic" THEN Get(request).body.keyword
    ELSE Get(compiled).query

\* The inner catch throws the error again, to the catch of the handler.
RethrowsHistoryError == Catches(Get(request).route, FALSE)

\* The inner catch: the error is logged and the handler goes on to res.json.
SwallowsHistoryError == SendsResults(results)

\* The keyword of the history entry: the keyword of a basic search, the
\* description of an advanced one.
HistoryKeyword ==
    IF Get(request).route = "basic" THEN Get(request).body.keyword
    ELSE Get(compiled).description

\* storage.createSearchHistory settles: the row is inserted and returned,
\* or the call throws and the inner catch swallows the error.
CreateSearchHistoryReturns ==
    /\ pc = "createSearchHistory"
    /\ \/ LET row == [id |-> Len(searchHistory) + 1,
                      userId |-> Get(Get(request).user),
                      domain |-> Get(request).body.domain,
                      keyword |-> HistoryKeyword,
                      resultsCount |-> Len(results)]
          IN  /\ searchHistory' = Append(searchHistory, row)
              /\ searchHist' = Some(row)
              /\ effects' = Append(effects, "history")
              /\ IF results = << >>
                 THEN SendsResults(results)
                 ELSE pc' = "createSearchResult" /\ UNCHANGED response
       \/ /\ SwallowsHistoryError
          /\ effects' = Append(effects, "historyError")
          /\ UNCHANGED << searchHistory, searchHist >>
    /\ UNCHANGED << queryVars, now, dateVars, resultVars, apiKey, request,
                    compiled, results, resultIndex, upstream, storageBefore,
                    searchResults, auxVars >>

\* storage.createSearchResult settles for the next result of the loop.
CreateSearchResultReturns ==
    /\ pc = "createSearchResult"
    /\ \/ LET result == results[resultIndex + 1]
              row == [id |-> Len(searchResults) + 1,
                      searchHistoryId |-> Get(searchHist).id,
                      title |-> result.title,
                      url |-> result.url,
                      snippet |-> result.snippet]
          IN  /\ searchResults' = Append(searchResults, row)
              /\ resultIndex' = resultIndex + 1
              /\ effects' = Append(effects, "result")
              /\ IF resultIndex' = Len(results)
                 THEN SendsResults(results)
                 ELSE UNCHANGED << pc, response >>
       \/ /\ SwallowsHistoryError
          /\ effects' = Append(effects, "historyError")
          /\ UNCHANGED << searchResults, resultIndex >>
    /\ UNCHANGED << queryVars, now, dateVars, resultVars, apiKey, request,
                    compiled, results, searchHist, upstream, storageBefore,
                    searchHistory, auxVars >>

NextRoute ==
    \/ PostSearch
    \/ PostAdvancedSearch
    \/ FetchReturns
    \/ CreateSearchHistoryReturns
    \/ CreateSearchResultReturns

SpecRoute == InitRoute /\ [][NextRoute]_vars

\* ---------------------------------------------- getLocalizationParams
MaxLocaleLen == 2

LocaleChars == {"u", "s", " "}

\* An argument of getLocalizationParams: undefined, or any short string.
LocaleArgs ==
    {None} \cup
    { Some(v) : v \in UNION { [1..n -> LocaleChars] : n \in 0..MaxLocaleLen } }

\* The state outside the search handlers: nothing has been called.
SearchIdle == QueryIdle /\ now = 0 /\ DateIdle /\ ResultsIdle /\ RouteIdle

searchVars == << queryVars, now, dateVars, resultVars, routeVars >>

InitLocale ==
    /\ SearchIdle
    /\ language \in LocaleArgs
    /\ region \in LocaleArgs
    /\ localizationParams = None
    /\ BasicIdle
    /\ SavedIdle
    /\ BrowserIdle

GetLocalizationParams ==
    /\ localizationParams = None
    /\ localizationParams' = Some(getLocalizationParams(language, region))
    /\ UNCHANGED << searchVars, language, region, basicVars, savedVars,
                    browserVars >>

NextLocale == GetLocalizationParams

SpecLocale == InitLocale /\ [][NextLocale]_vars

\* ------------------------------------------------------ buildBasicQuery
MaxBasicLen == 3

BasicChars == {" ", "k", "\""}

\* A SearchQuery: an accepted domain and a keyword, any short string.
BasicQueries ==
    [domain : Domains,
     keyword : UNION { [1..n -> BasicChars] : n \in 0..MaxBasicLen }]

InitBasic ==
    /\ SearchIdle
    /\ LocaleIdle
    /\ basicParams \in { Some(q) : q \in BasicQueries }
    /\ basicComponents = None
    /\ SavedIdle
    /\ BrowserIdle

BuildBasicQuery ==
    /\ basicComponents = None
    /\ basicComponents' = Some(buildBasicQuery(Get(basicParams)))
    /\ UNCHANGED << searchVars, localeVars, basicParams, savedVars,
                    browserVars >>

NextBasic == BuildBasicQuery

SpecBasic == InitBasic /\ [][NextBasic]_vars

\* ------------------------------------------------- /api/saved-searches
MaxSaved == 2

DigitChars == <<"1", "2", "3", "4", "5", "6", "7", "8", "9">>

IdDigits == { DigitChars[i] : i \in 1..Len(DigitChars) }

\* req.params.id: the ids the table can hold, the next one, and strings
\* that are no number or only start with one.
IdParams ==
    { <<DigitChars[i]>> : i \in 1..(MaxSaved + 1) }
      \cup { <<"x">>, <<"1", "x">> }

DigitValue(c) == CHOOSE i \in 1..Len(DigitChars) : DigitChars[i] = c

\* The digits s starts with.
RECURSIVE LeadingDigits(_)
LeadingDigits(s) ==
    IF s = << >> \/ Head(s) \notin IdDigits THEN << >>
    ELSE <<Head(s)>> \o LeadingDigits(Tail(s))

RECURSIVE DecimalValue(_)
DecimalValue(d) ==
    IF d = << >> THEN 0
    ELSE 10 * DecimalValue(SubSeq(d, 1, Len(d) - 1)) + DigitValue(d[Len(d)])

\* parseInt(s): the number its leading digits spell, NaN (None) without any.
ParseInt(s) ==
    IF LeadingDigits(s) = << >> THEN None
    ELSE Some(DecimalValue(LeadingDigits(s)))

SessionUsers == {"u", "v"}

SavedNames == { <<"n">>, <<"m">> }

SavedDomain == <<"a", ".", "i", "o">>

\* A request body: name may be missing, and a userId may be sent along.
SavedBodies ==
    [name : {None} \cup { Some(n) : n \in SavedNames },
     userId : {None} \cup { Some(w) : w \in SessionUsers }]

\* { userId, ...req.body }: a userId of the body wins.
WithSessionUserFirst(body, userId) ==
    [name |-> body.name,
     userId |-> IF IsSome(body.userId) THEN body.userId ELSE Some(userId)]

\* { ...req.body, userId }: the later key wins.
WithSessionUser(body, userId) ==
    [name |-> body.name, userId |-> Some(userId)]

\* insertSavedSearchSchema.parse accepts: name and userId are required.
insertSavedSearchSchemaAccepts(data) ==
    IsSome(data.name) /\ IsSome(data.userId)

\* updateSavedSearchSchema.parse accepts: name is required; userId is not
\* a key of the schema and is stripped.
updateSavedSearchSchemaAccepts(body) == IsSome(body.name)

\* where(eq(savedSearches.id, id)) alone.
MatchesId(row, id, userId) == row.id = id

\* where(and(eq(savedSearches.id, id), eq(savedSearches.userId, userId)))
MatchesIdAndUser(row, id, userId) == row.id = id /\ row.userId = userId

Reverse(seq) == [i \in 1..Len(seq) |-> seq[Len(seq) + 1 - i]]

\* getUserSavedSearches: the caller's rows, the newest first.
getUserSavedSearches(userId) ==
    Reverse(SelectSeq(savedSearches, LAMBDA r : r.userId = userId))

\* The rows a get, update or delete with this id and caller selects.
Selected(rows, id, userId) ==
    SelectSeq(rows, LAMBDA r : MatchesIdAndUser(r, id, userId))

SavedReply(status, body) == [status |-> status, body |-> body]

InitSaved ==
    /\ SearchIdle
    /\ LocaleIdle
    /\ BasicIdle
    /\ SavedIdle
    /\ BrowserIdle

\* GET /api/saved-searches
ListSavedSearches ==
    /\ \E u \in SessionUsers :
         /\ savedRequest' = Some([op |-> "list", user |-> u, id |-> << >>,
                                  body |-> None])
         /\ savedResponse' = Some(SavedReply(200, getUserSavedSearches(u)))
    /\ UNCHANGED << searchVars, localeVars, basicVars, browserVars,
                    savedSearches, nextSavedId >>

\* POST /api/saved-searches
CreateSavedSearch ==
    /\ nextSavedId <= MaxSaved
    /\ \E u \in SessionUsers, body \in SavedBodies :
         LET data == WithSessionUser(body, u)
             row == [id |-> nextSavedId, userId |-> Get(data.userId),
                     name |-> Get(data.name), domain |-> SavedDomain]
         IN  /\ savedRequest' = Some([op |-> "create", user |-> u,
                                      id |-> << >>, body |-> Some(body)])
             /\ IF insertSavedSearchSchemaAccepts(data)
                THEN /\ savedSearches' = Append(savedSearches, row)
                     /\ nextSavedId' = nextSavedId + 1
                     /\ savedResponse' = Some(SavedReply(201, <<row>>))
                ELSE /\ savedResponse' = Some(SavedReply(400, << >>))
                     /\ UNCHANGED << savedSearches, nextSavedId >>
    /\ UNCHANGED << searchVars, localeVars, basicVars, browserVars >>

\* PUT /api/saved-searches/:id
UpdateSavedSearch ==
    /\ \E u \in SessionUsers, p \in IdParams, body \in SavedBodies :
         LET searchId == ParseInt(p) IN
         /\ savedRequest' = Some([op |-> "update", user |-> u, id |-> p,
                                  body |-> Some(body)])
         /\ IF searchId = None \/ ~updateSavedSearchSchemaAccepts(body)
            THEN /\ savedResponse' = Some(SavedReply(400, << >>))
                 /\ UNCHANGED savedSearches
            ELSE /\ savedSearches' =
                      [i \in 1..Len(savedSearches) |->
                         IF MatchesIdAndUser(savedSearches[i],
                                             Get(searchId), u)
                         THEN [savedSearches[i] EXCEPT
                                 !.name = Get(body.name)]
                         ELSE savedSearches[i]]
                 /\ savedResponse' =
                      Some(SavedReply(200, Selected(savedSearches',
                                                    Get(searchId), u)))
    /\ UNCHANGED << searchVars, localeVars, basicVars, browserVars,
                    nextSavedId >>

\* DELETE /api/saved-searches/:id
DeleteSavedSearch ==
    /\ \E u \in SessionUsers, p \in IdParams :
         LET searchId == ParseInt(p) IN
         /\ savedRequest' = Some([op |-> "delete", user |-> u, id |-> p,
                                  body |-> None])
         /\ IF searchId = None
            THEN /\ savedResponse' = Some(SavedReply(400, << >>))
                 /\ UNCHANGED savedSearches
            ELSE /\ savedSearches' =
                      SelectSeq(savedSearches,
                                LAMBDA r : ~MatchesIdAndUser(
                                              r, Get(searchId), u))
                 /\ savedResponse' = Some(SavedReply(204, << >>))
    /\ UNCHANGED << searchVars, localeVars, basicVars, browserVars,
                    nextSavedId >>

\* GET /api/saved-searches/:id
GetSavedSearch ==
    /\ \E u \in SessionUsers, p \in IdParams :
         LET searchId == ParseInt(p) IN
         /\ savedRequest' = Some([op |-> "get", user |-> u, id |-> p,
                                  body |-> None])
         /\ IF searchId = None
            THEN savedResponse' = Some(SavedReply(400, << >>))
            ELSE IF Selected(savedSearches, Get(searchId), u) = << >>
            THEN savedResponse' = Some(SavedReply(404, << >>))
            ELSE savedResponse' =
                   Some(SavedReply(200,
                          <<Selected(savedSearches, Get(searchId), u)[1]>>))
    /\ UNCHANGED << searchVars, localeVars, basicVars, browserVars,
                    savedSearches, nextSavedId >>

NextSaved ==
    \/ ListSavedSearches
    \/ CreateSavedSearch
    \/ UpdateSavedSearch
    \/ DeleteSavedSearch
    \/ GetSavedSearch

SpecSaved == InitSaved /\ [][NextSaved]_vars

\* ------------------------------- the scripted-browser search, performSearch
InitBrowser ==
    /\ SearchIdle
    /\ LocaleIdle
    /\ BasicIdle
    /\ SavedIdle
    /\ BrowserIdle

otherThanBrowser == << searchVars, localeVars, basicVars, savedVars >>

\* performSearch is called: puppeteer.launch is awaited.
CallPerformSearch(c) ==
    /\ browsers[c].pc = "idle"
    /\ \E v \in Versions :
         browsers' = [browsers EXCEPT ![c].pc = "launch", ![c].version = v]
    /\ UNCHANGED otherThanBrowser

\* puppeteer.launch settles: a browser runs, or the call throws with none.
Launch(c) ==
    /\ browsers[c].pc = "launch"
    /\ \/ browsers' = [browsers EXCEPT ![c].pc = "try", ![c].step = 1,
                                       ![c].launched = @ + 1]
       \/ browsers' = [browsers EXCEPT ![c].pc = "threw",
                                       ![c].failedAt = "launch"]
    /\ UNCHANGED otherThanBrowser

\* The await the call is at settles: the next one follows, the last one
\* leaves the try block with the results, a rejected one throws; so does
\* the second version when the page shows no results.
Await(c) ==
    /\ browsers[c].pc = "try"
    /\ LET steps == StepsOf(browsers[c].version)
           step == steps[browsers[c].step]
       IN  \/ /\ browsers[c].step < Len(steps)
              /\ browsers' = [browsers EXCEPT ![c].step = @ + 1]
           \/ /\ browsers[c].step = Len(steps)
              /\ browsers' = [browsers EXCEPT ![c].pc = "finally",
                                              ![c].step = 0,
                                              ![c].outcome = "results"]
           \/ browsers' = [browsers EXCEPT ![c].pc = AfterThrow,
                                           ![c].step = 0,
                                           ![c].failedAt = "await",
                                           ![c].outcome = "error"]
           \/ /\ step = "hasResults"
              /\ browsers' = [browsers EXCEPT ![c].pc = AfterThrow,
                                              ![c].step = 0,
                                              ![c].failedAt = "noResults",
                                              ![c].outcome = "error"]
    /\ UNCHANGED otherThanBrowser

\* The finally block: browser.close() is awaited, then the function returns
\* the results or throws the error of the catch block.
Close(c) ==
    /\ browsers[c].pc = "finally"
    /\ browsers' =
         [browsers EXCEPT ![c].closed = @ + 1,
                          ![c].pc = IF browsers[c].outcome = "results"
                                    THEN "returned" ELSE "threw"]
    /\ UNCHANGED otherThanBrowser

NextBrowser ==
    \E c \in Calls :
      \/ CallPerformSearch(c)
      \/ Launch(c)
      \/ Await(c)
      \/ Close(c)

SpecBrowser == InitBrowser /\ [][NextBrowser]_vars

\* Every call that was made goes on: each of its awaits settles.
SpecBrowserFair ==
    SpecBrowser /\ \A c \in Calls : WF_vars(Launch(c) \/ Await(c) \/ Close(c))

\* =========================================================== properties
\* What the specification says of a field, written without the operators
\* of the model above.

\* s with its first n characters removed
Drop(s, n) == SubSeq(s, n + 1, Len(s))

IsPrefixOf(p, s) == Len(p) <= Len(s) /\ SubSeq(s, 1, Len(p)) = p

\* The value is made of whitespace only (the empty string included).
IsBlank(s) == \A i \in 1..Len(s) : s[i] \in Whitespace

\* A field contributes when it is defined and not blank.
Contributes(sp, f) == IsSome(sp[f]) /\ ~IsBlank(Get(sp[f]))

\* The tokens of s: its maximal runs of non-whitespace characters, in order.
RECURSIVE TokensOf(_)
TokensOf(s) ==
    IF s = << >> THEN << >>
    ELSE IF Head(s) \in Whitespace THEN TokensOf(Tail(s))
    ELSE LET n == CHOOSE k \in 1..Len(s) :
                    /\ \A i \in 1..k : s[i] \notin Whitespace
                    /\ (k = Len(s) \/ s[k + 1] \in Whitespace)
         IN << SubSeq(s, 1, n) >> \o TokensOf(Drop(s, n))

\* s without its leading and trailing whitespace; s is not blank.
Stripped(s) ==
    LET lo == CHOOSE i \in 1..Len(s) :
                 s[i] \notin Whitespace /\ \A j \in 1..(i - 1) : s[j] \in Whitespace
        hi == CHOOSE i \in 1..Len(s) :
                 s[i] \notin Whitespace /\ \A j \in (i + 1)..Len(s) : s[j] \in Whitespace
    IN SubSeq(s, lo, hi)

\* The first k elements of seq with sep between them.
RECURSIVE Joined(_, _, _)
Joined(seq, sep, k) ==
    IF k = 0 THEN << >>
    ELSE IF k = 1 THEN seq[1]
    ELSE Joined(seq, sep, k - 1) \o sep \o seq[k]

WithPrefix(p, toks) == [k \in 1..Len(toks) |-> p \o toks[k]]

\* The query fragment of a contributing field (section 4.2 of the
\* specification).
Fragment(f, v) ==
    CASE f = "allOfTerms" ->
           LET t == WithPrefix(<<"+">>, TokensOf(v)) IN Joined(t, <<" ">>, Len(t))
      [] f = "anyOfTerms" ->
           LET t == TokensOf(v) IN
           <<"(">> \o Joined(t, <<" ", "O", "R", " ">>, Len(t)) \o <<")">>
      [] f = "exactPhrase" -> <<"\"">> \o Stripped(v) \o <<"\"">>
      [] f = "includeTerms" ->
           LET t == TokensOf(v) IN Joined(t, <<" ">>, Len(t))
      [] f = "excludeTerms" ->
           LET t == WithPrefix(<<"-">>, TokensOf(v)) IN Joined(t, <<" ">>, Len(t))
      [] f = "fileType" ->
           <<"f", "i", "l", "e", "t", "y", "p", "e", ":">> \o Stripped(v)

\* The operator label and the description fragment of a contributing field.
Label(f, v) ==
    CASE f = "allOfTerms" -> AllOfLabelLit \o v
      [] f = "anyOfTerms" -> AnyOfLabelLit \o v
      [] f = "exactPhrase" -> ExactLabelLit \o v \o <<"\"">>
      [] f = "includeTerms" -> IncludeLabelLit \o v
      [] f = "excludeTerms" -> ExcludeLabelLit \o v
      [] f = "fileType" -> FileTypeLabelLit \o v

DescriptionOf(f, v) ==
    CASE f = "allOfTerms" -> AllOfDescLit \o v
      [] f = "anyOfTerms" -> AnyOfDescLit \o v
      [] f = "exactPhrase" -> ExactDescLit \o v \o <<"\"">>
      [] f = "includeTerms" -> IncludeDescLit \o v
      [] f = "excludeTerms" -> ExcludeDescLit \o v
      [] f = "fileType" -> FileTypeDescLit \o v

\* The contributing fields of sp, in the fixed order of Fields.
ContributingFields(sp) ==
    SelectSeq(Fields, LAMBDA f : Contributes(sp, f))

SiteOf(sp) == <<"s", "i", "t", "e", ":">> \o sp.domain

Returned == IsSome(queryComponents)

Result == Get(queryComponents)

\* C1: the query starts with site:<domain>, and after it come the fragments
\* of the contributing fields, each after one space, in the fixed order
\* allOfTerms, anyOfTerms, exactPhrase, includeTerms, excludeTerms, fileType.
C1_FieldOrder ==
    Returned =>
      LET cf == ContributingFields(searchParams)
          frags == [k \in 1..Len(cf) |->
                      Fragment(cf[k], Get(searchParams[cf[k]]))]
          all == << SiteOf(searchParams) >> \o frags
      IN /\ IsPrefixOf(SiteOf(searchParams), Result.query)
         /\ Result.query = Joined(all, <<" ">>, Len(all))

C1_Witness ==
    /\ Returned
    /\ Contributes(searchParams, "allOfTerms")
    /\ Contributes(searchParams, "excludeTerms")
    /\ Contributes(searchParams, "fileType")
    /\ Len(ContributingFields(searchParams)) = 3

\* C2: operators holds exactly one label for the domain and one for each
\* contributing field, whatever the number of its tokens, in the fixed field
\* order, and description is the description fragments of the same fields,
\* in the same order, joined with ", ".
C2_OneLabelPerField ==
    Returned =>
      LET cf == ContributingFields(searchParams)
          n == Cardinality({ f \in DOMAIN searchParams :
                               f # "domain" /\ Contributes(searchParams, f) })
          labels == [k \in 1..Len(cf) |->
                       Label(cf[k], Get(searchParams[cf[k]]))]
          descs == << DomainLit \o searchParams.domain >> \o
                     [k \in 1..Len(cf) |->
                        DescriptionOf(cf[k], Get(searchParams[cf[k]]))]
      IN /\ Len(Result.operators) = 1 + n
         /\ Result.operators = << SiteOf(searchParams) >> \o labels
         /\ Result.description = Joined(descs, <<",", " ">>, Len(descs))

C2_Witness ==
    /\ Returned
    /\ Contributes(searchParams, "allOfTerms")
    /\ Len(TokensOf(Get(searchParams.allOfTerms))) = 2
    /\ Contributes(searchParams, "fileType")
    /\ Len(Result.operators) = 3

\* C7: a field that is defined but empty or made of whitespace only gives
\* the same query, operators and description as the same request with that
\* field undefined.
C7_BlankIsAbsent ==
    Returned =>
      \A k \in 1..Len(Fields) :
        LET f == Fields[k] IN
        (IsSome(searchParams[f]) /\ IsBlank(Get(searchParams[f]))) =>
          Result = buildAdvancedQuery([searchParams EXCEPT ![f] = None])

C7_Witness ==
    /\ Returned
    /\ searchParams.allOfTerms = Some(<<" ", " ">>)
    /\ searchParams.fileType = Some(<< >>)
    /\ Contributes(searchParams, "anyOfTerms")

\* C8: with every optional field undefined the query is exactly
\* site:<domain> and operators is the one-element list [site:<domain>].
C8_DomainOnly ==
    (Returned /\ \A k \in 1..Len(Fields) : searchParams[Fields[k]] = None) =>
      /\ Result.query = SiteOf(searchParams)
      /\ Result.operators = << SiteOf(searchParams) >>

C8_Witness ==
    /\ Returned
    /\ \A k \in 1..Len(Fields) : searchParams[Fields[k]] = None
    /\ Len(Result.operators) = 1

\* C10: when allOfTerms is not blank and has the tokens t1..tn, the query
\* is site:<domain>, a space, +t1 +t2 ... +tn with single spaces, and then
\* what the same request without allOfTerms has after site:<domain>.
C10_AllOfFragments ==
    (Returned /\ Contributes(searchParams, "allOfTerms")) =>
      LET t == TokensOf(Get(searchParams.allOfTerms))
          plus == [k \in 1..Len(t) |-> <<"+">> \o t[k]]
          without == buildAdvancedQuery([searchParams EXCEPT !.allOfTerms = None])
      IN Result.query =
           SiteOf(searchParams) \o <<" ">> \o Joined(plus, <<" ">>, Len(plus))
             \o Drop(without.query, Len(SiteOf(searchParams)))

C10_Witness ==
    /\ Returned
    /\ searchParams.allOfTerms \in { Some(<<"a", " ", " ", "a">>),
                                     Some(<<" ", "a", " ", "a">>) }
    /\ Len(TokensOf(Get(searchParams.allOfTerms))) = 2

\* The request sp with only the fields before the k-th, and with only the
\* fields after it.
OnlyBefore(sp, k) ==
    [f \in DOMAIN sp |->
       IF \E j \in k..Len(Fields) : Fields[j] = f THEN None ELSE sp[f]]

OnlyAfter(sp, k) ==
    [f \in DOMAIN sp |->
       IF \E j \in 1..k : Fields[j] = f THEN None ELSE sp[f]]

\* The query in which frag is what the k-th field contributes: what the
\* fields before it give, a space, frag, and what the fields after it give.
QueryAround(sp, k, frag) ==
    buildAdvancedQuery(OnlyBefore(sp, k)).query \o <<" ">> \o frag
      \o Drop(buildAdvancedQuery(OnlyAfter(sp, k)).query, Len(SiteOf(sp)))

\* C11: when anyOfTerms is not blank and has the tokens t1..tn, it
\* contributes the single fragment (t1 OR t2 OR ... OR tn), tokens in input
\* order; with one token the fragment is (t1).
C11_AnyOfFragment ==
    (Returned /\ Contributes(searchParams, "anyOfTerms")) =>
      LET t == TokensOf(Get(searchParams.anyOfTerms))
          frag == IF Len(t) = 1 THEN <<"(">> \o t[1] \o <<")">>
                  ELSE <<"(">> \o Joined(t, <<" ", "O", "R", " ">>, Len(t))
                         \o <<")">>
      IN Result.query = QueryAround(searchParams, 2, frag)

C11_Witness ==
    /\ Returned
    /\ searchParams.anyOfTerms = Some(<<"a", " ", "a", "a">>)
    /\ Result.query =
         SiteOf(searchParams) \o
           <<" ", "(", "a", " ", "O", "R", " ", "a", "a", ")">>

\* C12: when exactPhrase is not blank, it contributes the phrase between
\* double quotes, without its leading and trailing whitespace and with
\* every character in between as typed, whitespace runs and double quotes
\* included.
C12_ExactPhraseVerbatim ==
    (Returned /\ Contributes(searchParams, "exactPhrase")) =>
      LET v == Get(searchParams.exactPhrase)
          frag == <<"\"">> \o Stripped(v) \o <<"\"">>
      IN Result.query = QueryAround(searchParams, 3, frag)

C12_Witness ==
    /\ Returned
    /\ searchParams.exactPhrase = Some(<<" ", "\"", " ", "a">>)
    /\ Result.query =
         SiteOf(searchParams) \o <<" ", "\"", "\"", " ", "a", "\"">>

\* C13: when excludeTerms is not blank and has the tokens t1..tn, it
\* contributes -t1 -t2 ... -tn, in token order, one fragment for each token.
C13_ExcludeFragments ==
    (Returned /\ Contributes(searchParams, "excludeTerms")) =>
      LET t == TokensOf(Get(searchParams.excludeTerms))
          minus == [k \in 1..Len(t) |-> <<"-">> \o t[k]]
      IN Result.query =
           QueryAround(searchParams, 5, Joined(minus, <<" ">>, Len(minus)))

C13_Witness ==
    /\ Returned
    /\ searchParams.excludeTerms = Some(<<"a", "a", " ", "a">>)
    /\ Result.query =
         SiteOf(searchParams) \o <<" ", "-", "a", "a", " ", "-", "a">>

\* C14: when includeTerms is not blank, its tokens are appended bare, in
\* token order, with single spaces between them.
C14_IncludeBare ==
    (Returned /\ Contributes(searchParams, "includeTerms")) =>
      LET t == TokensOf(Get(searchParams.includeTerms))
      IN Result.query =
           QueryAround(searchParams, 4, Joined(t, <<" ">>, Len(t)))

C14_Witness ==
    /\ Returned
    /\ searchParams.includeTerms = Some(<<"a", " ", " ", "a">>)
    /\ Result.query = SiteOf(searchParams) \o <<" ", "a", " ", "a">>

\* C15: when fileType is not blank, it contributes exactly one fragment,
\* filetype: followed by the value without its leading and trailing
\* whitespace, not split into tokens.
C15_FileTypeFragment ==
    (Returned /\ Contributes(searchParams, "fileType")) =>
      /\ Result.query =
           QueryAround(searchParams, 6,
                       <<"f", "i", "l", "e", "t", "y", "p", "e", ":">>
                         \o Stripped(Get(searchParams.fileType)))
      /\ Len(arrays.queryParts) =
           1 + Len(FilledArrays(NoArrays, OnlyBefore(searchParams, 6)).queryParts)

C15_Witness ==
    /\ Returned
    /\ searchParams.fileType = Some(<<" ", "a", " ", "a">>)
    /\ Len(arrays.queryParts) = 2

\* sub occurs in s
Contains(s, sub) ==
    \E i \in 1..(Len(s) - Len(sub) + 1) : SubSeq(s, i, i + Len(sub) - 1) = sub

\* The parts a contributing field puts in the query, from its tokens.
PartsOf(f, v) ==
    CASE f = "allOfTerms" -> WithPrefix(<<"+">>, TokensOf(v))
      [] f = "excludeTerms" -> WithPrefix(<<"-">>, TokensOf(v))
      [] f = "includeTerms" -> TokensOf(v)
      [] OTHER -> << Fragment(f, v) >>

RECURSIVE PartsUpTo(_, _)
PartsUpTo(sp, k) ==
    IF k = 0 THEN << SiteOf(sp) >>
    ELSE PartsUpTo(sp, k - 1) \o
           (IF Contributes(sp, Fields[k])
            THEN PartsOf(Fields[k], Get(sp[Fields[k]]))
            ELSE << >>)

\* C16: whatever the whitespace of the term fields, no part of the query is
\* empty or a bare + or -, the any-of part has no empty disjunct, and the
\* parts are the tokens of the fields in their input order.
C16_NoEmptyToken ==
    Returned =>
      LET parts == arrays.queryParts IN
      /\ \A i \in 1..Len(parts) :
           /\ parts[i] \notin { << >>, <<"+">>, <<"-">> }
           /\ Head(parts[i]) = "(" =>
                /\ parts[i] # <<"(", ")">>
                /\ ~Contains(parts[i], <<"(", " ", "O", "R", " ">>)
                /\ ~Contains(parts[i], <<" ", "O", "R", " ", ")">>)
                /\ ~Contains(parts[i], <<" ", "O", "R", " ", " ", "O", "R", " ">>)
      /\ parts = PartsUpTo(searchParams, Len(Fields))

C16_Witness ==
    /\ Returned
    /\ searchParams.anyOfTerms = Some(<<"a", " ", " ", "a">>)
    /\ arrays.queryParts =
         << SiteOf(searchParams),
            <<"(", "a", " ", "O", "R", " ", "a", ")">> >>

\* C17: buildAdvancedQuery never fails: whatever the optional fields hold
\* (undefined, blank, special characters, repeated tokens) the call returns
\* a query, an operators list and a description; it never throws.
C17_NeverFails ==
    buildOutcome # "none" =>
      /\ buildOutcome = "returned"
      /\ Returned
      /\ IsPrefixOf(SiteOf(searchParams), Result.query)
      /\ Len(Result.operators) >= 1
      /\ Result.description # << >>

C17_Witness ==
    /\ buildOutcome = "returned"
    /\ searchParams.allOfTerms = Some(<<"a", " ", "a">>)
    /\ searchParams.exactPhrase = Some(<<"\"">>)
    /\ searchParams.anyOfTerms = Some(<< >>)
    /\ searchParams.fileType = None
    /\ Len(Result.operators) = 3

\* C9: a call of buildAdvancedQuery returns what the first call returned
\* whenever its constraints are those of the first call, whatever was
\* called in between, whatever the clock reads and in whatever order the
\* properties of the request were set.
C9_Deterministic ==
    (Returned /\ IsSome(firstCall) /\ searchParams = Get(firstCall).params) =>
      Result = Get(firstCall).components

C9_Witness ==
    /\ Returned
    /\ IsSome(firstCall)
    /\ searchParams = Get(firstCall).params
    /\ keyOrder # Get(firstCall).keyOrder
    /\ now # Get(firstCall).at
    /\ Len(arrays.operators) = 3

\* ------------------------------------------------- date range properties
DateReturned == IsSome(dateParams)

DateResult == Get(dateParams)

Recognised ==
    { <<"d", "a", "y">>, <<"w", "e", "e", "k">>, <<"m", "o", "n", "t", "h">>,
      <<"y", "e", "a", "r">> }

IsRecognised(dr) == IsSome(dr) /\ Get(dr) \in Recognised

\* C5 as stated: for day, week, month and year the result has exactly one
\* key, and its value starts with the first character of the date range.
C5_ValueStartsWithLetter ==
    (DateReturned /\ IsRecognised(dateRange)) =>
      /\ Cardinality({ p.key : p \in DateResult }) = 1
      /\ \A p \in DateResult : p.value[1] = Get(dateRange)[1]

\* C5, amended: for day, week, month and year the result has exactly one
\* key, tbs, and its value is qdr: followed by the first character of the
\* date range.
C5_ValueIsQdrLetter ==
    (DateReturned /\ IsRecognised(dateRange)) =>
      /\ Cardinality(DateResult) = 1
      /\ \A p \in DateResult :
           /\ p.key = <<"t", "b", "s">>
           /\ p.value = <<"q", "d", "r", ":", Get(dateRange)[1]>>

C5_Witness ==
    /\ DateReturned
    /\ dateRange = Some(<<"w", "e", "e", "k">>)
    /\ now > 0
    /\ DateResult # { }

\* C6: the result has no key at all when the date range is "any",
\* undefined, empty or any string other than day, week, month and year.
C6_NoParamsOtherwise ==
    (DateReturned /\ ~IsRecognised(dateRange)) => DateResult = { }

C6_Witness ==
    /\ DateReturned
    /\ dateRange = Some(<<"d", "a">>)
    /\ DateResult = { }

\* ----------------------------------------------------- result properties
Answered == IsSome(searchOutcome)

Outcome == Get(searchOutcome)

HasLink(r) == r.kind = "object" /\ IsSome(r.link) /\ Get(r.link) # << >>

\* C3: the results are exactly the records that have a non-empty link, and
\* no result has an empty url.
C3_DropsRecordsWithoutLink ==
    (Answered /\ IsSome(organic) /\ Outcome.status = "ok") =>
      /\ Len(Outcome.results) = Len(SelectSeq(Get(organic), HasLink))
      /\ \A i \in 1..Len(Outcome.results) : Outcome.results[i].url # << >>

\* C4: a list holding a malformed element (null, or no object) does not
\* fail the search; the results are those of the well-formed records.
C4_MalformedRecordOmitted ==
    (Answered /\ IsSome(organic)
       /\ \E i \in 1..Len(Get(organic)) : Get(organic)[i].kind # "object") =>
      /\ Outcome.status = "ok"
      /\ Len(Outcome.results) =
           Len(SelectSeq(Get(organic), LAMBDA r : r.kind = "object"))

\* The field is missing or the empty string.
Missing(o) == o = None \/ Get(o) = << >>

\* What the specification asks of the result made from a record with a link.
Normalized(r) ==
    [title |-> IF Missing(r.title) THEN NoTitleLit ELSE Get(r.title),
     url |-> Get(r.link),
     snippet |-> IF Missing(r.snippet) THEN NoSnippetLit ELSE Get(r.snippet)]

\* C19: when the search returns, the result made from a record that has a
\* link carries that link as url, the record's title or "No title", and the
\* record's snippet or "No snippet available"; no result has an empty title
\* or an empty snippet.
C19_FieldDefaults ==
    (Answered /\ IsSome(organic) /\ Outcome.status = "ok") =>
      /\ Len(Outcome.results) = Len(Get(organic))
      /\ \A i \in 1..Len(Get(organic)) :
           HasLink(Get(organic)[i]) =>
             Outcome.results[i] = Normalized(Get(organic)[i])
      /\ \A i \in 1..Len(Outcome.results) :
           /\ Outcome.results[i].title # << >>
           /\ Outcome.results[i].snippet # << >>

C19_Witness ==
    /\ Answered
    /\ organic = Some(<< [kind |-> "object", title |-> None,
                          link |-> Some(<<"L">>), snippet |-> Some(<< >>)] >>)
    /\ Outcome.status = "ok"
    /\ Outcome.results =
         << [title |-> NoTitleLit, url |-> <<"L">>,
             snippet |-> NoSnippetLit] >>

\* C20: the results are the records that have a link, in the order of the
\* provider's list, one result per record: nothing is reordered and equal
\* records are not merged.
C20_FilteredSubsequence ==
    (Answered /\ IsSome(organic) /\ Outcome.status = "ok") =>
      LET kept == SelectSeq(Get(organic), HasLink) IN
      Outcome.results = [i \in 1..Len(kept) |-> Normalized(kept[i])]

\* ------------------------------------------------------ route properties
\* The host syntax the specification asks of a domain: a label that starts
\* with a letter or digit and goes on with letters, digits and hyphens, a
\* dot, and a suffix of one or two dot-separated runs of two or more letters.
RECURSIVE CountDots(_)
CountDots(s) ==
    IF s = << >> THEN 0
    ELSE (IF Head(s) = "." THEN 1 ELSE 0) + CountDots(Tail(s))

RECURSIVE UpToDot(_)
UpToDot(s) ==
    IF s = << >> \/ Head(s) = "." THEN << >>
    ELSE <<Head(s)>> \o UpToDot(Tail(s))

AlphaRun(t) == Len(t) >= 2 /\ \A i \in 1..Len(t) : t[i] \in Letters

HostSyntaxOk(s) ==
    LET label == UpToDot(s)
        rest == Drop(s, Len(label) + 1)
        first == UpToDot(rest)
        second == Drop(rest, Len(first) + 1)
    IN  /\ label # << >>
        /\ label[1] \in Letters \cup Digits
        /\ \A i \in 1..Len(label) : label[i] \in Letters \cup Digits \cup {"-"}
        /\ CountDots(s) \in {1, 2}
        /\ AlphaRun(first)
        /\ CountDots(s) = 2 => AlphaRun(second)

Requested == IsSome(request)

\* C18: a basic or advanced search request whose domain is not a valid host
\* is answered 400 at once: nothing was compiled or fetched for it and no
\* row was written.
C18_InvalidDomainRejected ==
    (Requested /\ ~HostSyntaxOk(Get(request).body.domain)) =>
      /\ pc = "done"
      /\ IsSome(response)
      /\ Get(response).status = 400
      /\ effects = << >>
      /\ compiled = None
      /\ upstream = None
      /\ searchHistory = storageBefore.history
      /\ searchResults = storageBefore.results

C18_Witness ==
    /\ Requested
    /\ Get(request).route = "advanced"
    /\ Get(request).user = Some("u")
    /\ Get(request).body.domain = <<"a", ".", "a">>
    /\ apiKey # None
    /\ Get(response).status = 400
    /\ effects = << >>
    /\ searchHistory # << >>

\* ------------------------------------------------- locale properties
LocaleReturned == IsSome(localizationParams)

LocaleResult == Get(localizationParams)

\* C21 as stated: both keys are always returned, the default stands in for
\* an absent argument, and every given string is passed through unchanged.
C21_AnyStringPassedThrough ==
    LocaleReturned =>
      /\ DOMAIN LocaleResult = {"gl", "hl"}
      /\ LocaleResult.gl = (IF region = None THEN UsLit ELSE Get(region))
      /\ LocaleResult.hl = (IF language = None THEN EnLit ELSE Get(language))

\* C21, amended: both keys are always returned; an absent or empty region
\* gives "us", an absent or empty language gives "en", and every non-empty
\* string is passed through unchanged.
C21_NonEmptyPassedThrough ==
    LocaleReturned =>
      /\ DOMAIN LocaleResult = {"gl", "hl"}
      /\ LocaleResult.gl =
           (IF region \in {None, Some(<< >>)} THEN UsLit ELSE Get(region))
      /\ LocaleResult.hl =
           (IF language \in {None, Some(<< >>)} THEN EnLit ELSE Get(language))

C21_Witness ==
    /\ LocaleReturned
    /\ region = Some(<< >>)
    /\ language = Some(<<" ", "s">>)
    /\ LocaleResult = [gl |-> UsLit, hl |-> <<" ", "s">>]

\* ---------------------------------------------- buildBasicQuery properties
BasicReturned == IsSome(basicComponents)

BasicResult == Get(basicComponents)

\* C22: buildBasicQuery returns the query `site:<domain> <keyword>`, the
\* keyword as given, and an operators list of the one label `site:<domain>`.
C22_BasicQuery ==
    BasicReturned =>
      LET site == <<"s", "i", "t", "e", ":">> \o Get(basicParams).domain IN
      /\ BasicResult.query = site \o <<" ">> \o Get(basicParams).keyword
      /\ BasicResult.operators = << site >>

C22_Witness ==
    /\ BasicReturned
    /\ Get(basicParams) =
         [domain |-> <<"a", ".", "i", "o">>, keyword |-> <<" ", "k", " ">>]
    /\ BasicResult.query =
         <<"s", "i", "t", "e", ":", "a", ".", "i", "o", " ", " ", "k", " ">>
    /\ Len(BasicResult.operators) = 1

\* ------------------------------------------- search history properties
Req == Get(request)

Finished == Requested /\ pc = "done"

Status == Get(response).status

\* The rows written since the request arrived.
NewHistory == Drop(searchHistory, Len(storageBefore.history))

NewResults == Drop(searchResults, Len(storageBefore.results))

RowsKept ==
    /\ IsPrefixOf(storageBefore.history, searchHistory)
    /\ IsPrefixOf(storageBefore.results, searchResults)

\* The upstream search succeeded: the fetch answered OK with a body whose
\* list, if any, holds no null.
UpstreamOk ==
    /\ IsSome(upstream)
    /\ Get(upstream).kind = "ok"
    /\ IsSome(Get(upstream).organic) =>
         \A i \in 1..Len(Get(Get(upstream).organic)) :
           Get(Get(upstream).organic)[i].kind # "null"

\* The number of records the provider answered with.
UpstreamCount ==
    IF IsSome(Get(upstream).organic) THEN Len(Get(Get(upstream).organic))
    ELSE 0

\* C23: a search by an anonymous caller writes nothing: no storage call is
\* made for it and the tables stay as they were when it arrived; when the
\* upstream search succeeded the results are returned all the same.
C23_AnonymousNeverWrites ==
    (Requested /\ Req.user = None) =>
      /\ pc \notin {"createSearchHistory", "createSearchResult"}
      /\ searchHistory = storageBefore.history
      /\ searchResults = storageBefore.results
      /\ \A i \in 1..Len(effects) : effects[i] \in {"compile", "fetch"}
      /\ (Finished /\ UpstreamOk) =>
           /\ Status = 200
           /\ Len(Get(response).results) = UpstreamCount

C23_Witness ==
    /\ Finished
    /\ Req.user = None
    /\ Req.route = "basic"
    /\ UpstreamOk
    /\ Status = 200
    /\ Len(Get(response).results) = 2
    /\ Len(searchHistory) = 1
    /\ Len(searchResults) = 1

\* The history keyword the specification asks for.
ExpectedKeyword ==
    IF Req.route = "advanced" THEN Get(Get(response).queryInfo).description
    ELSE Req.body.keyword

SaveFailed == \E i \in 1..Len(effects) : effects[i] = "historyError"

\* C26: when the upstream search succeeded and createSearchHistory or a
\* createSearchResult threw, the request is answered 200 with all the
\* results and, for an advanced search, the query info; never 500.
C26_SaveFailureSwallowed ==
    SaveFailed =>
      /\ Finished
      /\ Status = 200
      /\ Get(response).results = results
      /\ Len(Get(response).results) = UpstreamCount
      /\ Req.route = "advanced" =>
           /\ IsSome(Get(response).queryInfo)
           /\ Get(Get(response).queryInfo) = buildAdvancedQuery(Req.body)

C26_Witness ==
    /\ SaveFailed
    /\ Req.route = "advanced"
    /\ Status = 200
    /\ Len(Get(response).results) = 2
    /\ Len(NewHistory) = 1
    /\ Len(NewResults) = 1

\* The stored results linked to the history entry h.
LinkedTo(h) == SelectSeq(searchResults, LAMBDA r : r.searchHistoryId = h.id)

\* C27: once an authenticated search has completed, every history entry has
\* as many stored results linked to it as its resultsCount says.
C27_HistoryComplete ==
    (Finished /\ Req.user # None) =>
      \A j \in 1..Len(searchHistory) :
        Len(LinkedTo(searchHistory[j])) = searchHistory[j].resultsCount

\* The upstream search failed: no API key for a request that passed
\* validation, a rejected fetch, or an answer that is not OK.
UpstreamFailed ==
    \/ /\ apiKey = None
       /\ HostSyntaxOk(Req.body.domain)
       /\ Req.route = "basic" => Req.body.keyword # << >>
    \/ /\ IsSome(upstream)
       /\ Get(upstream).kind \in {"rejected", "notOk"}

\* C28: when the upstream search failed the request is answered 500 with
\* the generic message of its route, and no history entry or stored result
\* was written, whoever the caller is.
C28_UpstreamFailure ==
    (Requested /\ UpstreamFailed) =>
      /\ Finished
      /\ Status = 500
      /\ Get(response).message =
           (IF Req.route = "basic"
            THEN "Search failed. Please try again later."
            ELSE "Advanced search failed. Please try again later.")
      /\ Get(response).results = << >>
      /\ searchHistory = storageBefore.history
      /\ searchResults = storageBefore.results

C28_Witness ==
    /\ Finished
    /\ Req.user = Some("u")
    /\ IsSome(upstream)
    /\ Get(upstream).kind = "notOk"
    /\ Status = 500
    /\ searchHistory = storageBefore.history
    /\ Len(searchHistory) = 1

\* ------------------------------------------- saved searches properties
\* The rows of the table that do not belong to user.
RowsOfOthers(rows, user) == SelectSeq(rows, LAMBDA r : r.userId # user)

RowsOf(rows, user) == SelectSeq(rows, LAMBDA r : r.userId = user)

SeqToSet(seq) == { seq[i] : i \in 1..Len(seq) }

\* C25: whatever a user asks of the saved searches, the saved searches of
\* the other users stay as they are, every saved search in the response is
\* the caller's own, and the list is that of the caller's saved searches.
C25_SavedSearchesIsolated ==
    [][ LET caller == Get(savedRequest').user
            op == Get(savedRequest').op
            body == Get(savedResponse').body
        IN  /\ RowsOfOthers(savedSearches', caller) =
                 RowsOfOthers(savedSearches, caller)
            /\ \A i \in 1..Len(body) : body[i].userId = caller
            /\ op = "list" =>
                 SeqToSet(body) = SeqToSet(RowsOf(savedSearches, caller))
            /\ op \in {"list", "get"} => savedSearches' = savedSearches
      ]_vars

C25_Witness ==
    /\ IsSome(savedRequest)
    /\ Get(savedRequest).op = "get"
    /\ Get(savedRequest).user = "v"
    /\ Get(savedRequest).id = <<"1">>
    /\ Get(savedResponse).status = 404
    /\ Len(savedSearches) = 2
    /\ savedSearches[1].id = 1
    /\ savedSearches[1].userId = "u"
    /\ savedSearches[2].userId = "v"

\* C29: a saved search created through POST /api/saved-searches is stored
\* with the caller's id as userId, whatever userId the body carries.
C29_OwnedByCaller ==
    (IsSome(savedRequest) /\ Get(savedRequest).op = "create"
       /\ Get(savedResponse).status = 201) =>
      LET stored == savedSearches[Len(savedSearches)] IN
      /\ stored.userId = Get(savedRequest).user
      /\ stored.id = nextSavedId - 1
      /\ Get(savedResponse).body = << stored >>

C29_Witness ==
    /\ IsSome(savedRequest)
    /\ Get(savedRequest).op = "create"
    /\ Get(savedRequest).user = "u"
    /\ Get(Get(savedRequest).body).userId = Some("v")
    /\ Get(savedResponse).status = 201
    /\ savedSearches[Len(savedSearches)].userId = "u"

\* ------------------------------------------- scripted-browser properties
Over(c) == browsers[c].pc \in {"returned", "threw"}

\* C30: a browser that was launched is closed, once and never twice, on
\* every path: results returned, no results found, navigation or extraction
\* failed; a call that is over has left no browser open.
C30_BrowserClosedOnce ==
    \A c \in Calls :
      /\ [](browsers[c].closed <= browsers[c].launched)
      /\ [](browsers[c].launched <= 1)
      /\ [](Over(c) => browsers[c].closed = browsers[c].launched)
      /\ (browsers[c].launched = 1) ~> (browsers[c].closed = 1)

C30_Witness ==
    /\ browsers[1].version = "second"
    /\ browsers[1].pc = "threw"
    /\ browsers[1].failedAt = "noResults"
    /\ browsers[1].launched = 1
    /\ browsers[1].closed = 1
    /\ browsers[2].pc = "returned"
    /\ browsers[2].closed = 1

====
